---- MODULE Spec2Model ----
(***************************************************************************)
(* A model of ogr2ifc: the conversion of OGR vector features into IFC      *)
(* elements by elevation-bounded extrusion.                                *)
(*                                                                         *)
(* Spec        models the current module, src/ogr2ifc.py (classes Ogr2Ifc  *)
(*             and Ogr2Shape).                                             *)
(* SpecLegacy  models the packaged earlier module, src/ogr2ifc/ogr2ifc.py. *)
(*                                                                         *)
(* Conventions of the model:                                               *)
(*  - Python values are tagged records [t, n, s]: t is the Python type     *)
(*    name, n the numeric value (bool: 0/1), s the text.  Floats are       *)
(*    modelled by integers: every arithmetic the code does on them here    *)
(*    (negation, addition, subtraction, rotation by a multiple of 90       *)
(*    degrees) is exact on the modelled values.                            *)
(*  - A call returns a record with a field err: "" when it returned, else  *)
(*    the name of the exception it raised.                                 *)
(*  - ifcfile is the sequence of instances of the output document, an      *)
(*    instance's id being its index.  Geometric resources (points,         *)
(*    polylines, profiles, solids, faces) are nested as values in the      *)
(*    IfcShapeRepresentation that holds them.                              *)
(***************************************************************************)
EXTENDS Integers, Sequences, FiniteSets, TLC

\* ------------------------------------------------------------------ bounds
MaxHoles == 2          \* inner rings of a polygon: 0..MaxHoles
MaxParts == 2          \* members of a multi-part geometry: 1..MaxParts
MaxVertices == 3       \* vertices of a line string: 2..MaxVertices
MaxLayers == 2         \* layers of a data source
MaxFeatures == 2       \* features of a layer
MaxFlagSets == 1       \* assignments to representation flags before a run

\* ------------------------------------------------------------ Python values
PyNone == [t |-> "NoneType", n |-> 0, s |-> ""]
PyBool(b) == [t |-> "bool", n |-> IF b THEN 1 ELSE 0, s |-> ""]
PyInt(i) == [t |-> "int", n |-> i, s |-> ""]
PyFloat(x) == [t |-> "float", n |-> x, s |-> ""]
PyStr(txt) == [t |-> "str", n |-> 0, s |-> txt]

\* isinstance(v, cls): bool is a subclass of int
isinstance(v, cls) ==
  \/ v.t = cls
  \/ v.t = "bool" /\ cls = "int"

\* the texts float() can parse, with their values
NumericText == [s \in {"4"} |-> 4]

\* float(v)
float(v) ==
  CASE v.t \in {"int", "float", "bool"} -> [err |-> "", val |-> v.n]
    [] v.t = "str" /\ v.s \in DOMAIN NumericText -> [err |-> "", val |-> NumericText[v.s]]
    [] v.t = "str" -> [err |-> "ValueError", val |-> 0]
    [] OTHER -> [err |-> "TypeError", val |-> 0]

\* str(v)
str(v) ==
  CASE v.t = "str" -> v.s
    [] v.t = "NoneType" -> "None"
    [] v.t = "bool" -> IF v.n = 1 THEN "True" ELSE "False"
    [] v.t = "int" -> ToString(v.n)
    [] OTHER -> ToString(v.n) \o ".0"

\* dict.get(key) on an ordered mapping given as a sequence of <<key, value>>
DictGet(items, key) ==
  IF \E i \in 1..Len(items) : items[i][1] = key
  THEN items[CHOOSE i \in 1..Len(items) : items[i][1] = key][2]
  ELSE PyNone

\* --------------------------------------------------------------- geometry
\* Points are <<x, y, z>>, as OGR's GetPoint returns them.
\* OuterRing(k): a closed triangular ring with its corner at (k, 0)
OuterRing(k) == << <<k, 0, 0>>, <<k + 16, 0, 0>>, <<k + 16, 16, 0>>, <<k, 0, 0>> >>

\* InnerRing(k, j): the j-th closed triangular ring inside OuterRing(k)
InnerRing(k, j) ==
  << <<k + 3 * j + 1, 1, 0>>, <<k + 3 * j + 3, 1, 0>>, <<k + 3 * j + 3, 2, 0>>,
     <<k + 3 * j + 1, 1, 0>> >>

\* a polygon: rings[1] the outer ring, the rest inner rings
Polygon(k, holes) ==
  [name |-> "POLYGON",
   rings |-> [j \in 1..(holes + 1) |-> IF j = 1 THEN OuterRing(k) ELSE InnerRing(k, j - 1)]]

\* a multipolygon of `parts` members, member i having i % (MaxHoles + 1) inner rings
MultiPolygon(parts) ==
  [name |-> "MULTIPOLYGON",
   geoms |-> [i \in 1..parts |-> Polygon(20 * i, i % (MaxHoles + 1))]]

\* a line string of n vertices in a zigzag, every segment of length 5
LineString(n) ==
  [name |-> "LINESTRING", points |-> [i \in 1..n |-> <<3 * i, 4 * (i % 2), 0>>]]

MultiLineString(parts) ==
  [name |-> "MULTILINESTRING", geoms |-> [i \in 1..parts |-> LineString(2)]]

PointGeom == [name |-> "POINT", points |-> << <<3, 4, 0>> >>]

MultiPoint(parts) ==
  [name |-> "MULTIPOINT", geoms |-> [i \in 1..parts |-> <<i, 2 * i, 0>>]]

\* OGRGeometry.GetGeometryCount(): the sub-geometries (rings of a polygon,
\* members of a multi-part geometry; none for a point or a line string)
GetGeometryCount(g) ==
  CASE g.name = "POLYGON" -> Len(g.rings)
    [] g.name \in {"MULTIPOLYGON", "MULTILINESTRING", "MULTIPOINT"} -> Len(g.geoms)
    [] OTHER -> 0

\* the attribute mappings of the features (feature.items()), in field order
ItemsList ==
  << << <<"ELEV", PyFloat(7)>>, <<"TOP", PyFloat(3)>>, <<"open", PyBool(TRUE)>> >>,
     << <<"name", PyStr("x")>>, <<"ELEV", PyNone>>, <<"count", PyInt(5)>> >>,
     << <<"TOP", PyInt(9)>>, <<"width", PyFloat(5)>>, <<"ELEV", PyStr("4")>> >>,
     << <<"ELEV", PyStr("x")>>, <<"TOP", PyFloat(8)>> >>,
     << >> >>

\* the geometries of the features, one of each kind and size within the bounds
GeometryList ==
  [h \in 1..(MaxHoles + 1) |-> Polygon(1, h - 1)]
    \o [k \in 1..MaxParts |-> MultiPolygon(k)]
    \o [n \in 1..(MaxVertices - 1) |-> LineString(n + 1)]
    \o [k \in 1..MaxParts |-> MultiLineString(k)]
    \o << PointGeom >>
    \o [k \in 1..MaxParts |-> MultiPoint(k)]

NumFeatures == Len(GeometryList) * Len(ItemsList)

\* OGRFeature k: GetFID() = k, GetGeometryRef() = geom, items() = items.
\* Every geometry occurs with every attribute mapping.
Feature(k) ==
  [fid |-> k,
   geom |-> GeometryList[((k - 1) % Len(GeometryList)) + 1],
   items |-> ItemsList[((k - 1) \div Len(GeometryList)) + 1]]

Features == {Feature(k) : k \in 1..NumFeatures}

LayerNames == [i \in 1..(MaxLayers + 1) |-> "L" \o ToString(i)]

\* A data source: MaxLayers layers holding consecutive features from feature
\* number `first` on; layer i holds (first + i) % (MaxFeatures + 1) of them.
DataSource(first) ==
  [i \in 1..MaxLayers |->
    [name |-> LayerNames[i],
     features |-> [j \in 1..((first + i) % (MaxFeatures + 1)) |->
                     Feature(((first + (i - 1) * MaxFeatures + j - 2) % NumFeatures) + 1)]]]

DataSources == {DataSource(first) : first \in 1..NumFeatures} \cup {<< >>}

\* str.upper() on the type names the code writes
upper ==
  [txt \in {"Point", "Multipoint", "Linestring", "Multilinestring", "Polygon",
            "Multipolygon"} |->
    CASE txt = "Point" -> "POINT"
      [] txt = "Multipoint" -> "MULTIPOINT"
      [] txt = "Linestring" -> "LINESTRING"
      [] txt = "Multilinestring" -> "MULTILINESTRING"
      [] txt = "Polygon" -> "POLYGON"
      [] txt = "Multipolygon" -> "MULTIPOLYGON"]

\* Ogr2Shape.geom_type(*types)
geom_type(feature, types) == feature.geom.name \in {upper[ty] : ty \in types}

\* ------------------------------------------------------ coordinate transform
\* cos and sin of the rotations of the model (degrees, counter-clockwise);
\* shapely rounds the residue of cos/sin at these angles to 0.
Rotations == {0, 90, 180, 270}
cos(deg) == CASE deg = 0 -> 1 [] deg = 90 -> 0 [] deg = 180 -> -1 [] deg = 270 -> 0
sin(deg) == CASE deg = 0 -> 0 [] deg = 90 -> 1 [] deg = 180 -> 0 [] deg = 270 -> -1

\* shapely.affinity.translate(geom, xoff, yoff, zoff) on a point
translate(p, xoff, yoff, zoff) == <<p[1] + xoff, p[2] + yoff, p[3] + zoff>>

\* shapely.affinity.rotate(geom, angle, origin=(0, 0)) on a point
rotate(p, angle) ==
  <<p[1] * cos(angle) - p[2] * sin(angle), p[1] * sin(angle) + p[2] * cos(angle), p[3]>>

\* The values the attribute coord_transformer can hold: the module-level
\* function `transformer` itself, or a closure coord_transformer it returned.
TransformerFunction ==
  [kind |-> "transformer", eastings |-> 0, northings |-> 0, orthogonal_height |-> 0,
   rotation |-> 0]

\* transformer(eastings, northings, orthogonal_height, rotation): the closure
transformer(eastings, northings, orthogonal_height, rotation) ==
  [kind |-> "coord_transformer", eastings |-> eastings, northings |-> northings,
   orthogonal_height |-> orthogonal_height, rotation |-> rotation]

\* the closure's body
coord_transformer(ct, geom) ==
  rotate(translate(geom, -ct.eastings, -ct.northings, -ct.orthogonal_height), ct.rotation)

\* self.ogr2ifc.coord_transformer(Point(*p)): a shapely point when the
\* attribute is a closure; when it is `transformer`, the call binds the point
\* to `eastings` and returns a new closure, a function object.
CallTransformer(ct, p) ==
  IF ct.kind = "coord_transformer"
  THEN [py |-> "Point", xyz |-> coord_transformer(ct, p)]
  ELSE [py |-> "function", xyz |-> p]

\* ---------------------------------------------------------- IFC geometry
\* A value computed once and used several times is passed as a parameter of
\* a local operator: LET use(v) == ... IN use(<the computation>).
\*
\* Ogr2Shape.create_ifcpoint(point, dimensions): .coords of a function object
\* is an AttributeError
create_ifcpoint(ct, point, dimensions) ==
  LET coords(g) ==
        IF g.py = "Point"
        THEN [err |-> "", val |-> SubSeq(g.xyz, 1, dimensions)]
        ELSE [err |-> "AttributeError", val |-> << >>]
  IN  coords(CallTransformer(ct, point))

\* the exception of the first call of a sequence of calls that raised, or ""
FirstErr(calls) ==
  IF \E i \in 1..Len(calls) : calls[i].err # ""
  THEN calls[CHOOSE i \in 1..Len(calls) :
               calls[i].err # "" /\ \A j \in 1..(i - 1) : calls[j].err = ""].err
  ELSE ""

\* the values of a sequence of calls
Vals(calls) == [i \in 1..Len(calls) |-> calls[i].val]

\* a list comprehension [call(x) for x in ...]: its value, or the exception
\* of the first call that raised
Comprehension(calls) == [err |-> FirstErr(calls), val |-> Vals(calls)]

\* Ogr2Shape.create_ifcpoints(points, dimensions)
create_ifcpoints(ct, points, dimensions) ==
  Comprehension([i \in 1..Len(points) |-> create_ifcpoint(ct, points[i], dimensions)])

\* Ogr2Shape.create_ifcpolyline(point_list, dimensions)
create_ifcpolyline(ct, point_list, dimensions) ==
  LET polyline(pts) == [err |-> pts.err, val |-> [type |-> "IfcPolyLine", Points |-> pts.val]]
  IN  polyline(create_ifcpoints(ct, point_list, dimensions))

\* Ogr2Shape.create_ifcface(points_list, dimensions)
create_ifcface(ct, points_list, dimensions) ==
  LET face(pts) ==
        [err |-> pts.err,
         val |-> [type |-> "IfcFaceSurface",
                  Bounds |-> << [type |-> "IfcFaceBound",
                                 Bound |-> [type |-> "IfcPolyLoop", Polygon |-> pts.val]] >>]]
  IN  face(create_ifcpoints(ct, points_list, dimensions))

\* Ogr2Shape.create_ifcfaces(points_lists, dimensions)
create_ifcfaces(ct, points_lists, dimensions) ==
  Comprehension([i \in 1..Len(points_lists) |->
                  create_ifcface(ct, points_lists[i], dimensions)])

\* a bug: the loop over the inner rings stops one ring early
inner_polylines_short(ct, geomref, geomcount) ==
  Comprehension([j \in 1..(geomcount - 2) |-> create_ifcpolyline(ct, geomref.rings[j + 1], 2)])

\* the loop `for j in range(1, geomcount)` of create_ifcextrudedareasolid:
\* the rings after the first, as polylines
inner_polylines(ct, geomref, geomcount) ==
  Comprehension([j \in 1..(geomcount - 1) |-> create_ifcpolyline(ct, geomref.rings[j + 1], 2)])

\* the profile of create_ifcextrudedareasolid
create_profile(geomcount, outer_polyline, inner) ==
  IF geomcount = 1
  THEN [type |-> "IfcArbitraryClosedProfileDef", OuterCurve |-> outer_polyline,
        InnerCurves |-> << >>]
  ELSE [type |-> "IfcArbitraryProfileDefWithVoids", OuterCurve |-> outer_polyline,
        InnerCurves |-> inner]

\* Ogr2Shape.create_ifcextrudedareasolid(geomref, ifcaxis2placement, extrude_dir, extrusion)
create_ifcextrudedareasolid(ct, geomref, ifcaxis2placement, extrude_dir, extrusion) ==
  LET extrude(geomcount, outer_polyline, inner) ==
        [err |-> IF outer_polyline.err # "" THEN outer_polyline.err
                 ELSE IF geomcount = 1 THEN "" ELSE inner.err,
         val |-> [type |-> "IfcExtrudedAreaSolid",
                  SweptArea |-> create_profile(geomcount, outer_polyline.val, inner.val),
                  Position |-> ifcaxis2placement, ExtrudedDirection |-> extrude_dir,
                  Depth |-> extrusion]]
  IN  extrude(GetGeometryCount(geomref),
              create_ifcpolyline(ct, geomref.rings[1], 2),
              inner_polylines(ct, geomref, GetGeometryCount(geomref)))

\* a bug: of a multipolygon only the first member is extruded
SolidMembers_first(feature) ==
  IF geom_type(feature, {"Multipolygon"}) THEN << feature.geom.geoms[1] >>
  ELSE << feature.geom >>

\* the geometries create_ifcextrudedareasolids makes a solid of: the members
\* of a multipolygon, else the geometry itself
SolidMembers(feature) ==
  IF geom_type(feature, {"Multipolygon"}) THEN feature.geom.geoms ELSE << feature.geom >>

\* Ogr2Shape.create_ifcextrudedareasolids(ifcaxis2placement, extrude_dir, extrusion)
create_ifcextrudedareasolids(ct, feature, ifcaxis2placement, extrude_dir, extrusion) ==
  Comprehension([i \in 1..Len(SolidMembers(feature)) |->
                  create_ifcextrudedareasolid(ct, SolidMembers(feature)[i], ifcaxis2placement,
                                              extrude_dir, extrusion)])

\* the standard vectors
null == <<0, 0, 0>>
X == <<1, 0, 0>>
Z == <<0, 0, 1>>

\* create_ifcaxis2placement(ifcfile, point, dir1, dir2)
create_ifcaxis2placement(point, dir1, dir2) ==
  [type |-> "IfcAxis2Placement3D", Location |-> point, Axis |-> dir1, RefDirection |-> dir2]

\* ------------------------------------------------------------- Ogr2Shape
\* attribute access o.name on an object given as the record of its attributes
getattr(o, name) ==
  IF name \in DOMAIN o
  THEN [err |-> "", val |-> o[name]]
  ELSE [err |-> "AttributeError", val |-> PyNone]

\* the assignment o.name = val
setattr(o, name, val) ==
  [a \in DOMAIN o \cup {name} |-> IF a = name THEN val ELSE o[a]]

\* one elevation of extrusion_bounds: the attribute of the feature named by a
\* str spec, the attribute `fallback` of the Ogr2Ifc when that is None, or
\* the spec itself
elevation(o, feature, spec, fallback) ==
  LET found(value) ==
        IF value.t = "NoneType" THEN getattr(o, fallback) ELSE [err |-> "", val |-> value]
  IN  IF isinstance(spec, "str") THEN found(DictGet(feature.items, spec.s))
      ELSE [err |-> "", val |-> spec]

\* a bug: extrusion_bounds refuses a top below the bottom
extrusion_bounds_ordered(o, feature) ==
  LET numerical(bottom_elevation, top_elevation, ftop, fbottom) ==
        [err |-> IF bottom_elevation.err # "" THEN bottom_elevation.err
                 ELSE IF top_elevation.err # "" THEN top_elevation.err
                 ELSE IF ftop.err # "" THEN ftop.err
                 ELSE IF fbottom.err # "" THEN fbottom.err
                 ELSE IF ftop.val < fbottom.val THEN "ValueError"
                 ELSE "",
         top |-> ftop.val, bottom |-> fbottom.val]
      resolved(bottom_elevation, top_elevation) ==
        numerical(bottom_elevation, top_elevation,
                  float(top_elevation.val), float(bottom_elevation.val))
  IN  resolved(elevation(o, feature, o.bottom_elevation, "min_elevation"),
               elevation(o, feature, o.top_elevation, "max_elevation"))

\* Ogr2Shape.extrusion_bounds(): (top_elevation, bottom_elevation)
extrusion_bounds(o, feature) ==
  LET numerical(bottom_elevation, top_elevation, ftop, fbottom) ==
        [err |-> IF bottom_elevation.err # "" THEN bottom_elevation.err
                 ELSE IF top_elevation.err # "" THEN top_elevation.err
                 ELSE IF ftop.err # "" THEN ftop.err
                 ELSE fbottom.err,
         top |-> ftop.val, bottom |-> fbottom.val]
      resolved(bottom_elevation, top_elevation) ==
        numerical(bottom_elevation, top_elevation,
                  float(top_elevation.val), float(bottom_elevation.val))
  IN  resolved(elevation(o, feature, o.bottom_elevation, "min_elevation"),
               elevation(o, feature, o.top_elevation, "max_elevation"))

\* ifcfile.createIfcShapeRepresentation(context, identifier, type, items)
createIfcShapeRepresentation(context, identifier, rtype, items) ==
  [type |-> "IfcShapeRepresentation", ContextOfItems |-> context,
   RepresentationIdentifier |-> identifier, RepresentationType |-> rtype, Items |-> items]

\* a builder raised `e`: it added nothing to the file
Raises(file, e) == [err |-> e, file |-> file, shapes |-> << >>]

\* a builder returned the list `ids` of representations
Returns(file, ids) == [err |-> "", file |-> file, shapes |-> ids]

\* a builder created one representation and returned it in a list
ReturnsNew(file, rep) == Returns(Append(file, rep), << Len(file) + 1 >>)

\* a bug: a builder that does not apply to the geometry raises
Inapplicable_raises(file) == Raises(file, "Exception")

\* `return []` of a builder that does not apply to the geometry of the feature
Inapplicable(file) == Returns(file, << >>)

\* Ogr2Shape.cog()
cog(o, file, feature) == Raises(file, "NotImplementedError")

\* Ogr2Shape.box()
box(o, file, feature) == Raises(file, "NotImplementedError")

\* a bug: the footprint builder returns nothing instead of raising
footprint_silent(o, file, feature) == Returns(file, << >>)

\* Ogr2Shape.footprint()
footprint(o, file, feature) == Raises(file, "NotImplementedError")

\* OGRGeometry.GetPoint() of a point; of a geometry without points of its own
\* OGR reports "Incompatible geometry for operation": a RuntimeError when
\* the bindings use exceptions, else the zeroed output buffer
GetPoint(geomref, use_exceptions) ==
  IF geomref.name = "POINT" THEN [err |-> "", val |-> geomref.points[1]]
  ELSE IF use_exceptions THEN [err |-> "RuntimeError", val |-> null]
  ELSE [err |-> "", val |-> null]

\* Ogr2Shape.axis()
axis(o, file, feature, use_exceptions) ==
  LET made(line) ==
        IF line.err # "" THEN Raises(file, line.err)
        ELSE ReturnsNew(file, createIfcShapeRepresentation(o.context, "Axis", "Curve2D",
                                                           << line.val >>))
      located(bounds, point) ==
        IF bounds.err # "" THEN Raises(file, bounds.err)
        ELSE IF GetGeometryCount(feature.geom) > 1 THEN Raises(file, "TypeError")
        ELSE IF point.err # "" THEN Raises(file, point.err)
        ELSE made(create_ifcpolyline(o.coord_transformer,
                    << <<point.val[1], point.val[2], bounds.bottom>>,
                       <<point.val[1], point.val[2], bounds.top>> >>, 3))
  IN  IF ~geom_type(feature, {"Point", "Multipoint"}) THEN Inapplicable(file)
      ELSE located(extrusion_bounds(o, feature), GetPoint(feature.geom, use_exceptions))

\* the first two coordinates of a point with the elevation appended:
\* list(p[:2]) + [elevation]
AtElevation(p, elev) == <<p[1], p[2], elev>>

\* a bug: the loop over the segments starts at the second segment
points_lists_late(segment_points, top_elevation, bottom_elevation) ==
  [i \in 1..(Len(segment_points) - 2) |->
    << AtElevation(segment_points[i + 1], bottom_elevation),
       AtElevation(segment_points[i + 2], bottom_elevation),
       AtElevation(segment_points[i + 2], top_elevation),
       AtElevation(segment_points[i + 1], top_elevation),
       AtElevation(segment_points[i + 1], bottom_elevation) >>]

\* the loop of surface(): one closed list of five points per segment
points_lists(segment_points, top_elevation, bottom_elevation) ==
  [i \in 1..(Len(segment_points) - 1) |->
    << AtElevation(segment_points[i], bottom_elevation),
       AtElevation(segment_points[i + 1], bottom_elevation),
       AtElevation(segment_points[i + 1], top_elevation),
       AtElevation(segment_points[i], top_elevation),
       AtElevation(segment_points[i], bottom_elevation) >>]

\* Ogr2Shape.surface()
surface(o, file, feature) ==
  LET made(faces) ==
        IF faces.err # "" THEN Raises(file, faces.err)
        ELSE ReturnsNew(file, createIfcShapeRepresentation(o.context, "Surface", "Surface",
                                                           faces.val))
      bounded(bounds) ==
        IF bounds.err # "" THEN Raises(file, bounds.err)
        ELSE IF geom_type(feature, {"Multilinestring"}) THEN Raises(file, "NotImplementedError")
        ELSE made(create_ifcfaces(o.coord_transformer,
                    points_lists(feature.geom.points, bounds.top, bounds.bottom), 3))
  IN  IF ~geom_type(feature, {"Linestring", "Multilinestring"}) THEN Inapplicable(file)
      ELSE bounded(extrusion_bounds(o, feature))

\* Ogr2Shape.body()
body(o, file, feature) ==
  LET made(solids) ==
        IF solids.err # "" THEN Raises(file, solids.err)
        ELSE ReturnsNew(file, createIfcShapeRepresentation(o.context, "Body", "SweptSolid",
                                                           solids.val))
      placed(bounds, transformed) ==
        IF bounds.err # "" THEN Raises(file, bounds.err)
        ELSE IF transformed.py # "Point" THEN Raises(file, "AttributeError")
        ELSE made(create_ifcextrudedareasolids(o.coord_transformer, feature,
                    create_ifcaxis2placement(<<0, 0, transformed.xyz[3]>>, Z, X), Z,
                    bounds.top - bounds.bottom))
      bounded(bounds) ==
        placed(bounds, CallTransformer(o.coord_transformer, <<0, 0, bounds.bottom>>))
  IN  IF ~geom_type(feature, {"Polygon", "Multipolygon"}) THEN Inapplicable(file)
      ELSE bounded(extrusion_bounds(o, feature))

\* the values the message of an exception of that type is formatted from, at
\* each place that raises one while a feature is composed: none for the bare
\* `raise NotImplementedError`, for `raise('...')` (a TypeError of the
\* interpreter) and for the error of OGR; the type and the attribute for a
\* failed attribute lookup; the text for a failed float()
exception_args(e, feature) ==
  CASE e = "NotImplementedError" -> {<< >>}
    [] e = "TypeError" -> {<< >>, << "NoneType" >>}
    [] e = "RuntimeError" -> {<< >>}
    [] e = "AttributeError" ->
         {<< "Ogr2Ifc", "min_elevation" >>, << "Ogr2Ifc", "max_elevation" >>,
          << "function", "coords" >>, << "function", "z" >>}
    [] e = "ValueError" ->
         {<< feature.items[i][2].s >> :
            i \in {k \in 1..Len(feature.items) : feature.items[k][2].t = "str"}}
    [] OTHER -> {}

\* the builders of representations() in the order it calls them
Builders == << "CoG", "Box", "Axis", "FootPrint", "Surface", "Body" >>

\* the call of one builder
Build(which, o, file, feature, use_exceptions) ==
  CASE which = "CoG" -> cog(o, file, feature)
    [] which = "Box" -> box(o, file, feature)
    [] which = "Axis" -> axis(o, file, feature, use_exceptions)
    [] which = "FootPrint" -> footprint(o, file, feature)
    [] which = "Surface" -> surface(o, file, feature)
    [] which = "Body" -> body(o, file, feature)

\* `shapes += <builder>()`
Extend(acc, r) == [err |-> r.err, file |-> r.file, shapes |-> acc.shapes \o r.shapes]

\* representations() from its k-th `if` on, `acc` being what the earlier
\* ones left: `if self.ogr2ifc.<flag>: shapes += self.<builder>()`
RECURSIVE representations_from(_, _, _, _, _)
representations_from(k, o, acc, feature, use_exceptions) ==
  IF k > Len(Builders) \/ acc.err # "" THEN acc
  ELSE IF ~o[Builders[k]] THEN representations_from(k + 1, o, acc, feature, use_exceptions)
  ELSE representations_from(k + 1, o,
         Extend(acc, Build(Builders[k], o, acc.file, feature, use_exceptions)),
         feature, use_exceptions)

\* Ogr2Shape.representations()
representations(o, file, feature, use_exceptions) ==
  representations_from(1, o, Returns(file, << >>), feature, use_exceptions)

\* --------------------------------------------------------------- Ogr2Ifc
\* None as an instance reference
NoInstance == 0

\* the IfcLocalPlacement create_ifclocalplacement(ifcfile, point, dir1, dir2,
\* relative_to) creates
create_ifclocalplacement(point, dir1, dir2, relative_to) ==
  [type |-> "IfcLocalPlacement", PlacementRelTo |-> relative_to,
   RelativePlacement |-> create_ifcaxis2placement(point, dir1, dir2)]

\* ifcopenshell.template.create(**settings): the instances create_ifc reads back
Template ==
  << [type |-> "IfcProject", Name |-> "GIS2BIM"],
     [type |-> "IfcOwnerHistory"],
     [type |-> "IfcGeometricRepresentationContext"] >>

\* ifcfile.createIfcRelAggregates(guid, owner_history, name, None, relating, related)
createIfcRelAggregates(name, relating, related) ==
  [type |-> "IfcRelAggregates", Name |-> name, RelatingObject |-> relating,
   RelatedObjects |-> related]

\* Ogr2Ifc.create_ifc(): the file it returns, `n` being the length of the
\* template: the instances it creates get the ids n + 1, n + 2, ...
create_ifc_file(n) ==
  Template \o
  << create_ifclocalplacement(null, Z, X, NoInstance),
     [type |-> "IfcSite", Name |-> "Site", ObjectPlacement |-> n + 1],
     create_ifclocalplacement(null, Z, X, n + 1),
     [type |-> "IfcBuilding", Name |-> "GIS2BIM", ObjectPlacement |-> n + 3],
     createIfcRelAggregates("Site Container", n + 2, << n + 4 >>),
     createIfcRelAggregates("Project Container", 1, << n + 2 >>) >>

\* the attributes Ogr2Ifc.create_ifc() assigns
create_ifc_attrs(n) ==
  [project |-> 1, owner_history |-> 2, context |-> 3,
   site_placement |-> n + 1, site |-> n + 2,
   building_placement |-> n + 3, building |-> n + 4,
   container_site |-> n + 5, container_project |-> n + 6]

\* the defaults of Ogr2Ifc.__init__
DefaultTopElevation == 10000
DefaultBottomElevation == 0

\* a bug: the constructor leaves the Axis flag off
Ogr2Ifc_init_axis_off(top_elevation, bottom_elevation, coord_transformer_arg) ==
  [CoG |-> FALSE, Box |-> FALSE, Axis |-> FALSE, FootPrint |-> FALSE,
   Surface |-> TRUE, Body |-> TRUE,
   top_elevation |-> IF top_elevation.t # "NoneType" THEN top_elevation
                     ELSE PyFloat(DefaultTopElevation),
   bottom_elevation |-> IF bottom_elevation.t # "NoneType" THEN bottom_elevation
                        ELSE PyFloat(DefaultBottomElevation),
   coord_transformer |-> IF coord_transformer_arg.kind # "None" THEN coord_transformer_arg
                         ELSE TransformerFunction]
    @@ create_ifc_attrs(Len(Template))

\* the attributes Ogr2Ifc.__init__ assigns, given its arguments;
\* a coord_transformer argument is None or a closure made by transformer()
Ogr2Ifc_init(top_elevation, bottom_elevation, coord_transformer_arg) ==
  [CoG |-> FALSE, Box |-> FALSE, Axis |-> TRUE, FootPrint |-> FALSE,
   Surface |-> TRUE, Body |-> TRUE,
   top_elevation |-> IF top_elevation.t # "NoneType" THEN top_elevation
                     ELSE PyFloat(DefaultTopElevation),
   bottom_elevation |-> IF bottom_elevation.t # "NoneType" THEN bottom_elevation
                        ELSE PyFloat(DefaultBottomElevation),
   coord_transformer |-> IF coord_transformer_arg.kind # "None" THEN coord_transformer_arg
                         ELSE TransformerFunction]
    @@ create_ifc_attrs(Len(Template))

\* a bug: the placement of the storey is made relative to itself
create_storey_cyclic(o, file, name) ==
  [file |-> file \o
            << create_ifclocalplacement(null, Z, X, Len(file) + 1),
               [type |-> "IfcBuildingStorey", Name |-> name,
                ObjectPlacement |-> Len(file) + 1],
               createIfcRelAggregates("Building Container", o.building,
                                      << Len(file) + 2 >>) >>,
   o |-> setattr(setattr(o, "storey_placement", Len(file) + 1),
                 "building_storey", Len(file) + 2),
   storey |-> Len(file) + 3]

\* Ogr2Ifc.create_storey(name): the file, the attributes assigned and the
\* value returned, which is the IfcRelAggregates instance
create_storey(o, file, name) ==
  [file |-> file \o
            << create_ifclocalplacement(null, Z, X, o.building_placement),
               [type |-> "IfcBuildingStorey", Name |-> name,
                ObjectPlacement |-> Len(file) + 1],
               createIfcRelAggregates("Building Container", o.building,
                                      << Len(file) + 2 >>) >>,
   o |-> setattr(setattr(o, "storey_placement", Len(file) + 1),
                 "building_storey", Len(file) + 2),
   storey |-> Len(file) + 3]

\* a bug: the int branch of add_property_set is tested before the bool branch
property_value_int_first(v) ==
  IF isinstance(v, "int") THEN [entity |-> "IfcInteger", wrappedValue |-> v]
  ELSE IF isinstance(v, "bool") THEN [entity |-> "IfcBoolean", wrappedValue |-> v]
  ELSE IF isinstance(v, "float") THEN [entity |-> "IfcReal", wrappedValue |-> v]
  ELSE [entity |-> "IfcText", wrappedValue |-> PyStr(str(v))]

\* the branch of add_property_set taken for the value v: the IFC type of the
\* property and the value wrapped
property_value(v) ==
  IF isinstance(v, "bool") THEN [entity |-> "IfcBoolean", wrappedValue |-> v]
  ELSE IF isinstance(v, "int") THEN [entity |-> "IfcInteger", wrappedValue |-> v]
  ELSE IF isinstance(v, "float") THEN [entity |-> "IfcReal", wrappedValue |-> v]
  ELSE [entity |-> "IfcText", wrappedValue |-> PyStr(str(v))]

\* the loop of add_property_set over feature.items().items()
property_values(attributes) ==
  [i \in 1..Len(attributes) |->
    [type |-> "IfcPropertySingleValue", Name |-> attributes[i][1],
     Description |-> attributes[i][1], NominalValue |-> property_value(attributes[i][2])]]

\* Ogr2Ifc.add_property_set(layer, feature, ifc_element)
add_property_set(file, layer, feature, ifc_element) ==
  file \o
  << [type |-> "IfcPropertySet", Name |-> "ePset_GIS2BIM_" \o layer.name,
      HasProperties |-> property_values(feature.items)],
     [type |-> "IfcRelDefinesByProperties", RelatedObjects |-> << ifc_element >>,
      RelatingPropertyDefinition |-> Len(file) + 1] >>

\* OGRGeometry.Area() of a ring: the shoelace formula
ring_area(ring) ==
  LET term[i \in 0..(Len(ring) - 1)] ==
        IF i = 0 THEN 0
        ELSE term[i - 1] + ring[i][1] * ring[i + 1][2] - ring[i + 1][1] * ring[i][2]
      twice == term[Len(ring) - 1]
  IN  (IF twice < 0 THEN -twice ELSE twice) \div 2

\* OGRGeometry.Area() of a polygon: the outer ring less the inner rings
RECURSIVE polygon_area_from(_, _)
polygon_area_from(polygon, j) ==
  IF j > Len(polygon.rings) THEN 0
  ELSE (IF j = 1 THEN ring_area(polygon.rings[j]) ELSE -ring_area(polygon.rings[j]))
         + polygon_area_from(polygon, j + 1)

\* OGRGeometry.Area()
RECURSIVE members_area_from(_, _)
members_area_from(geoms, i) ==
  IF i > Len(geoms) THEN 0
  ELSE polygon_area_from(geoms[i], 1) + members_area_from(geoms, i + 1)

Area(geomref) ==
  CASE geomref.name = "POLYGON" -> polygon_area_from(geomref, 1)
    [] geomref.name = "MULTIPOLYGON" -> members_area_from(geomref.geoms, 1)
    [] OTHER -> 0

\* the length of the segment from p to q, an integer on the model's line strings
segment_length(p, q) ==
  LET dx == IF q[1] < p[1] THEN p[1] - q[1] ELSE q[1] - p[1]
      dy == IF q[2] < p[2] THEN p[2] - q[2] ELSE q[2] - p[2]
  IN  CHOOSE r \in 0..(dx + dy) : r * r = dx * dx + dy * dy

RECURSIVE line_length_from(_, _)
line_length_from(points, i) ==
  IF i >= Len(points) THEN 0
  ELSE segment_length(points[i], points[i + 1]) + line_length_from(points, i + 1)

RECURSIVE members_length_from(_, _)
members_length_from(geoms, i) ==
  IF i > Len(geoms) THEN 0
  ELSE line_length_from(geoms[i].points, 1) + members_length_from(geoms, i + 1)

\* OGRGeometry.Length()
Length(geomref) ==
  CASE geomref.name = "LINESTRING" -> line_length_from(geomref.points, 1)
    [] geomref.name = "MULTILINESTRING" -> members_length_from(geomref.geoms, 1)
    [] OTHER -> 0

\* Ogr2Ifc.feature_quantities(feature): the list returned, << >> standing
\* for the None the method returns when no branch is taken
feature_quantities(feature) ==
  LET geomref == feature.geom
  IN  IF geomref.name \in {"POLYGON", "MULTIPOLYGON"}
      THEN << [type |-> "IfcQuantityArea", Name |-> "Area", AreaValue |-> Area(geomref)] >>
      ELSE IF geomref.name \in {"LINE", "MULTILINE"}
      THEN << [type |-> "IfcQuantityArea", Name |-> "Length",
               AreaValue |-> Length(geomref)] >>
      ELSE << >>

\* the Name of the element: 'GIS2BIM Layer %s, Feature ID %s' % (layername, fid)
element_name(layername, fid) ==
  "GIS2BIM Layer " \o layername \o ", Feature ID " \o ToString(fid)

\* `if feature_quantities:` of add_feature: the element quantity and its relation
add_quantities(file, quantities, ifc_element) ==
  IF quantities = << >> THEN file
  ELSE file \o
       << [type |-> "IfcElementQuantity", Name |-> "BaseQuantities",
           Quantities |-> quantities],
          [type |-> "IfcRelDefinesByProperties", RelatedObjects |-> << ifc_element >>,
           RelatingPropertyDefinition |-> Len(file) + 1] >>

\* add_feature after shape.representations() left `file` and returned `shapes`
add_feature_element(o, file, shapes, layer, space, feature, feature_placement) ==
  Append(
    add_quantities(
      add_property_set(
        file \o
        << [type |-> "IfcProductDefinitionShape", Representations |-> shapes],
           [type |-> "IfcWallStandardCase",
            Name |-> element_name(layer.name, feature.fid),
            ObjectPlacement |-> feature_placement,
            Representation |-> Len(file) + 1],
           createIfcRelAggregates("Feature space", space, << Len(file) + 2 >>) >>,
        layer, feature, Len(file) + 2),
      feature_quantities(feature), Len(file) + 2),
    [type |-> "IfcRelContainedInSpatialStructure", Name |-> "Building Storey Container",
     RelatedElements |-> << Len(file) + 2 >>, RelatingStructure |-> o.building_storey])

\* Ogr2Ifc.add_feature(layer, space, feature): the file it leaves and the
\* exception it raised, if any
add_feature(o, file, layer, space, feature, use_exceptions) ==
  LET composed(reps) ==
        IF reps.err # "" THEN [err |-> reps.err, file |-> reps.file]
        ELSE [err |-> "",
              file |-> add_feature_element(o, reps.file, reps.shapes, layer, space, feature,
                                           Len(file) + 1)]
  IN  composed(representations(o,
                 Append(file, create_ifclocalplacement(null, Z, X, NoInstance)),
                 feature, use_exceptions))

\* the head of add_layer_objects(layer): the IfcSpace of the layer, then
\* `space = self.create_storey(layer.GetName())`
add_layer_objects_head(o, file, layer) ==
  LET named(made) == [file |-> made.file, o |-> made.o, space |-> made.storey]
  IN  named(create_storey(o,
              Append(file, [type |-> "IfcSpace", Name |-> layer.name,
                            Description |-> "GIS2 Bim Layer space",
                            ObjectPlacement |-> o.site_placement]),
              layer.name))

\* ------------------------------------------------------------ file system
\* A path is the sequence of its components; << >> is the empty path ''.
\* os.path.dirname(path)
dirname(path) == SubSeq(path, 1, Len(path) - 1)

\* the directories os.makedirs(name) makes sure of: name and its parents
Parents(name) == {SubSeq(name, 1, k) : k \in 1..Len(name)}

\* os.makedirs(name, exist_ok=True): the directories afterwards; mkdir('')
\* is a FileNotFoundError
makedirs(dirs, name) ==
  IF name = << >> THEN [err |-> "FileNotFoundError", dirs |-> dirs]
  ELSE [err |-> "", dirs |-> dirs \cup Parents(name)]

\* ifcfile.write(path): the files afterwards
write(files, path, document) == (path :> document) @@ files

\* Ogr2Ifc.save_ifc(bim_file_path)
save_ifc(files_dirs, document, bim_file_path) ==
  LET written(made) ==
        IF made.err # ""
        THEN [dirs |-> made.dirs, files |-> files_dirs.files, path |-> bim_file_path,
              err |-> made.err]
        ELSE [dirs |-> made.dirs, files |-> write(files_dirs.files, bim_file_path, document),
              path |-> bim_file_path, err |-> ""]
  IN  written(makedirs(files_dirs.dirs, dirname(bim_file_path)))

\* the file system before anything is saved: the directory ifc_files is
\* there, no file has been written, no path has been asked for
NoFilesYet ==
  [dirs |-> {<< "ifc_files" >>}, files |-> << >>, path |-> << >>, err |-> ""]

\* the destination paths: a bare file name, a file in a directory that is
\* there, a file in a directory that is not
SavePaths ==
  {<< "test.ifc" >>, << "ifc_files", "test.ifc" >>, << "out", "ifc", "test.ifc" >>}

\* ------------------------------------------------------------------- state
VARIABLES
  o2i,          \* the attributes of the Ogr2Ifc object, but for the next two
  ifcfile,      \* o2i.ifcfile: the output document
  dataSource,   \* o2i.dataSource: the layers of the GIS file
  pc,           \* "constructed", "running" (in add_vector_layers), "returned", "raised",
                \* "saved", "save_raised" (after save_ifc); "written" (the package)
  raised,       \* the exception that left add_vector_layers, "" if none
  layernames,   \* add_vector_layers' layernames: [all |-> BOOLEAN, names |-> set]
  layer_i,      \* the layer the loop of add_vector_layers is at (0: before the first)
  feature_i,    \* the features of that layer the loop of add_layer_objects is done with
  space,        \* the variable `space` of add_layer_objects
  mark,         \* history: the length of ifcfile when the last add_feature was called
  nflagsets,    \* history: the assignments made to representation flags
  fs            \* the file system: [dirs, files, path, err] (see NoFilesYet)

vars == <<o2i, ifcfile, dataSource, pc, raised, layernames, layer_i, feature_i, space,
          mark, nflagsets, fs>>

\* the arguments of the constructor
TopElevationArgs == {PyNone, PyStr("TOP")}
BottomElevationArgs == {PyNone, PyFloat(2), PyStr("ELEV")}
NoTransformer ==
  [kind |-> "None", eastings |-> 0, northings |-> 0, orthogonal_height |-> 0, rotation |-> 0]
TransformerArgs == {NoTransformer, transformer(0, 0, 0, 0), transformer(1, 2, 3, 90)}

\* the layernames arguments of add_vector_layers: None, a str, a list
LayernamesArgs ==
  {[py |-> "NoneType", names |-> << >>], [py |-> "str", names |-> << "L1" >>],
   [py |-> "list", names |-> << "L2", LayerNames[MaxLayers + 1] >>],
   [py |-> "list", names |-> << >>]}

\* o2i = Ogr2Ifc(gis_file_path, top_elevation, bottom_elevation, coord_transformer)
Init ==
  \E top \in TopElevationArgs, bottom \in BottomElevationArgs, ct \in TransformerArgs,
     ds \in DataSources :
    /\ o2i = Ogr2Ifc_init(top, bottom, ct)
    /\ ifcfile = create_ifc_file(Len(Template))
    /\ dataSource = ds
    /\ pc = "constructed"
    /\ raised = ""
    /\ layernames = [all |-> TRUE, names |-> {}]
    /\ layer_i = 0
    /\ feature_i = 0
    /\ space = NoInstance
    /\ mark = Len(create_ifc_file(Len(Template)))
    /\ nflagsets = 0
    /\ fs = NoFilesYet

RepresentationFlags == {"CoG", "Box", "Axis", "FootPrint", "Surface", "Body"}

\* o2i.<flag> = value, before the conversion is run
SetFlag(flag, value) ==
  /\ pc = "constructed"
  /\ nflagsets < MaxFlagSets
  /\ o2i[flag] # value
  /\ o2i' = setattr(o2i, flag, value)
  /\ nflagsets' = nflagsets + 1
  /\ UNCHANGED <<ifcfile, dataSource, pc, raised, layernames, layer_i, feature_i, space, mark,
               fs>>

\* the call o2i.add_vector_layers(layernames), up to its loop
AddVectorLayers(arg) ==
  /\ pc = "constructed"
  /\ pc' = "running"
  /\ layernames' = [all |-> arg.py = "NoneType",
                    names |-> {arg.names[i] : i \in 1..Len(arg.names)}]
  /\ layer_i' = 0
  /\ feature_i' = 0
  /\ UNCHANGED <<o2i, ifcfile, dataSource, raised, space, mark, nflagsets, fs>>

\* the loop of add_layer_objects over the layer at layer_i is done
LayerDone == IF layer_i = 0 THEN TRUE ELSE feature_i = Len(dataSource[layer_i].features)

\* a bug: the loop of add_vector_layers takes every layer
Selected_all(layer) == TRUE

\* `if layernames is None or layer.GetName() in layernames`
Selected(layer) == layernames.all \/ layer.name \in layernames.names

\* the loop of add_vector_layers reaches a layer that is selected:
\* add_layer_objects(layer) up to its loop
AddLayerObjects ==
  /\ pc = "running" /\ LayerDone /\ layer_i < Len(dataSource)
  /\ Selected(dataSource[layer_i + 1])
  /\ LET assign(head) ==
           /\ ifcfile' = head.file
           /\ o2i' = head.o
           /\ space' = head.space
     IN  assign(add_layer_objects_head(o2i, ifcfile, dataSource[layer_i + 1]))
  /\ layer_i' = layer_i + 1
  /\ feature_i' = 0
  /\ UNCHANGED <<dataSource, pc, raised, layernames, mark, nflagsets, fs>>

\* the loop of add_vector_layers passes a layer that is not selected
SkipLayer ==
  /\ pc = "running" /\ LayerDone /\ layer_i < Len(dataSource)
  /\ ~Selected(dataSource[layer_i + 1])
  /\ layer_i' = layer_i + 1
  /\ feature_i' = Len(dataSource[layer_i + 1].features)
  /\ UNCHANGED <<o2i, ifcfile, dataSource, pc, raised, layernames, space, mark, nflagsets, fs>>

\* a bug: add_layer_objects passes over a feature that raised and goes on
AddFeature_continue ==
  /\ pc = "running" /\ layer_i > 0 /\ ~LayerDone
  /\ \E use_exceptions \in BOOLEAN :
       LET assign(r) ==
             /\ ifcfile' = r.file
             /\ raised' = r.err
             /\ pc' = "running"
       IN  assign(add_feature(o2i, ifcfile, dataSource[layer_i], space,
                              dataSource[layer_i].features[feature_i + 1], use_exceptions))
  /\ mark' = Len(ifcfile)
  /\ feature_i' = feature_i + 1
  /\ UNCHANGED <<o2i, dataSource, layernames, layer_i, space, nflagsets, fs>>

\* one turn of the loop of add_layer_objects: add_feature(layer, space, feature)
AddFeature ==
  /\ pc = "running" /\ layer_i > 0 /\ ~LayerDone
  /\ \E use_exceptions \in BOOLEAN :
       LET assign(r) ==
             /\ ifcfile' = r.file
             /\ raised' = r.err
             /\ pc' = IF r.err = "" THEN "running" ELSE "raised"
       IN  assign(add_feature(o2i, ifcfile, dataSource[layer_i], space,
                              dataSource[layer_i].features[feature_i + 1], use_exceptions))
  /\ mark' = Len(ifcfile)
  /\ feature_i' = feature_i + 1
  /\ UNCHANGED <<o2i, dataSource, layernames, layer_i, space, nflagsets, fs>>

\* the loop of add_vector_layers ends and the method returns
Return ==
  /\ pc = "running" /\ LayerDone /\ layer_i = Len(dataSource)
  /\ pc' = "returned"
  /\ UNCHANGED <<o2i, ifcfile, dataSource, raised, layernames, layer_i, feature_i, space,
                 mark, nflagsets, fs>>

\* the call o2i.save_ifc(bim_file_path) after add_vector_layers has returned
SaveIfc(bim_file_path) ==
  /\ pc = "returned"
  /\ fs' = save_ifc(fs, ifcfile, bim_file_path)
  /\ pc' = IF save_ifc(fs, ifcfile, bim_file_path).err = "" THEN "saved" ELSE "save_raised"
  /\ UNCHANGED <<o2i, ifcfile, dataSource, raised, layernames, layer_i, feature_i, space,
                 mark, nflagsets>>

Next ==
  \/ \E flag \in RepresentationFlags, value \in BOOLEAN : SetFlag(flag, value)
  \/ \E arg \in LayernamesArgs : AddVectorLayers(arg)
  \/ AddLayerObjects
  \/ SkipLayer
  \/ AddFeature
  \/ Return
  \/ \E bim_file_path \in SavePaths : SaveIfc(bim_file_path)

Spec == Init /\ [][Next]_vars

\* ------------------------------------- the packaged module ogr2ifc/ogr2ifc.py
\* The package holds an earlier Ogr2Ifc whose constructor does the whole
\* conversion: it creates the hierarchy, adds every layer and writes the
\* file. Its definitions carry the prefix package_ where the name is taken.
\*
\* create_ifcpolyline(ifcfile, point_list) of the package: no transformation
package_create_ifcpolyline(point_list) ==
  [type |-> "IfcPolyLine",
   Points |-> [i \in 1..Len(point_list) |-> SubSeq(point_list[i], 1, 2)]]

\* the loop over the inner rings of the package's create_ifcextrudedareasolid
package_inner_polylines(geomref, geomcount) ==
  [j \in 1..(geomcount - 1) |-> package_create_ifcpolyline(geomref.rings[j + 1])]

\* create_ifcextrudedareasolid(ifcfile, geomref, ifcaxis2placement, extrude_dir,
\* extrusion) of the package, for a geomref that is a polygon
package_create_ifcextrudedareasolid(geomref, ifcaxis2placement, extrude_dir, extrusion) ==
  [type |-> "IfcExtrudedAreaSolid",
   SweptArea |-> create_profile(GetGeometryCount(geomref),
                                package_create_ifcpolyline(geomref.rings[1]),
                                package_inner_polylines(geomref, GetGeometryCount(geomref))),
   Position |-> ifcaxis2placement, ExtrudedDirection |-> extrude_dir, Depth |-> extrusion]

\* create_ifcextrudedareasolids(ifcfile, feature, ...) of the package: one
\* solid per sub-geometry of the geometry, whatever the geometry is. The
\* sub-geometries of a polygon are its rings, and a ring has no sub-geometry:
\* GetGeometryRef(0) of a ring is an OGR error (RuntimeError when OGR
\* exceptions are on) or None, whose GetPointCount is an AttributeError.
package_create_ifcextrudedareasolids(feature, ifcaxis2placement, extrude_dir, extrusion, use_exceptions) ==
  IF feature.geom.name = "MULTIPOLYGON"
  THEN [err |-> "",
        val |-> [i \in 1..GetGeometryCount(feature.geom) |->
                  package_create_ifcextrudedareasolid(feature.geom.geoms[i],
                                                      ifcaxis2placement, extrude_dir,
                                                      extrusion)]]
  ELSE [err |-> IF use_exceptions THEN "RuntimeError" ELSE "AttributeError", val |-> << >>]

\* the bound swept_solid takes for an elevation argument: the attribute of
\* that name when the argument is a str, self.<fallback> when it is None
package_elevation(o, feature, spec, fallback) ==
  IF isinstance(spec, "str")
  THEN IF DictGet(feature.items, spec.s).t = "NoneType" THEN o[fallback]
       ELSE DictGet(feature.items, spec.s)
  ELSE spec

\* Ogr2Ifc.swept_solid(feature) of the package: top_elevation -
\* bottom_elevation is a TypeError when one of them is a str
swept_solid(o, feature, use_exceptions) ==
  LET made(solids) ==
        [err |-> solids.err,
         val |-> createIfcShapeRepresentation(o.context, "Body", "SweptSolid", solids.val)]
      extruded(top_elevation, bottom_elevation) ==
        IF top_elevation.t = "str" \/ bottom_elevation.t = "str"
        THEN [err |-> "TypeError", val |-> << >>]
        ELSE made(package_create_ifcextrudedareasolids(feature,
                    create_ifcaxis2placement(<<0, 0, float(bottom_elevation).val>>, Z, X), Z,
                    top_elevation.n - bottom_elevation.n, use_exceptions))
  IN  extruded(package_elevation(o, feature, o.top_elevation, "max_elevation"),
               package_elevation(o, feature, o.bottom_elevation, "min_elevation"))

\* a bug: body_representation returns an empty representation for a geometry
\* it does not support
body_representation_lenient(o, feature, use_exceptions) ==
  IF feature.geom.name \in {"POLYGON", "MULTIPOLYGON"}
  THEN swept_solid(o, feature, use_exceptions)
  ELSE [err |-> "",
        val |-> createIfcShapeRepresentation(o.context, "Body", "SweptSolid", << >>)]

\* Ogr2Ifc.body_representation(feature) of the package
body_representation(o, feature, use_exceptions) ==
  IF feature.geom.name \in {"POLYGON", "MULTIPOLYGON"}
  THEN swept_solid(o, feature, use_exceptions)
  ELSE [err |-> "Exception", val |-> << >>]

\* the branch of add_layer_property_set taken for the value v;
\* create_entity("IntValue", v) names no entity of the schema: RuntimeError
add_layer_property_value(v) ==
  IF isinstance(v, "bool") THEN [err |-> "", val |-> [entity |-> "IfcBoolean", wrappedValue |-> v]]
  ELSE IF isinstance(v, "int") THEN [err |-> "RuntimeError", val |-> << >>]
  ELSE IF isinstance(v, "float") THEN [err |-> "", val |-> [entity |-> "IfcReal", wrappedValue |-> v]]
  ELSE [err |-> "", val |-> [entity |-> "IfcText", wrappedValue |-> PyStr(str(v))]]

\* Ogr2Ifc.add_layer_property_set(layer, feature, ifc_element) of the package
add_layer_property_set(file, layer, feature, ifc_element) ==
  LET assigned(values) ==
        IF values.err # "" THEN [err |-> values.err, file |-> file]
        ELSE [err |-> "",
              file |-> file \o
                << [type |-> "IfcPropertySet", Name |-> "Pset_GIS2BIM_" \o layer.name,
                    HasProperties |->
                      [i \in 1..Len(feature.items) |->
                        [type |-> "IfcPropertySingleValue", Name |-> feature.items[i][1],
                         Description |-> feature.items[i][1],
                         NominalValue |-> values.val[i]]]],
                   [type |-> "IfcRelDefinesByProperties", RelatedObjects |-> << ifc_element >>,
                    RelatingPropertyDefinition |-> Len(file) + 1] >>]
  IN  assigned(Comprehension([i \in 1..Len(feature.items) |->
                               add_layer_property_value(feature.items[i][2])]))

\* add_feature of the package from the product shape on: `file` holds the
\* placement of the feature, `representation` is what body_representation
\* returned
package_add_feature_element(o, file, representation, layer, feature, feature_placement) ==
  LET quantified(props) ==
        IF props.err # "" THEN props
        ELSE [err |-> "",
              file |-> props.file \o
                << [type |-> "IfcElementQuantity", Name |-> "BaseQuantities",
                    Quantities |-> << [type |-> "IfcQuantityArea", Name |-> "Area",
                                       AreaValue |-> Area(feature.geom)] >>],
                   [type |-> "IfcRelDefinesByProperties",
                    RelatedObjects |-> << Len(file) + 3 >>,
                    RelatingPropertyDefinition |-> Len(props.file) + 1],
                   [type |-> "IfcRelContainedInSpatialStructure",
                    Name |-> "Building Storey Container",
                    RelatedElements |-> << Len(file) + 3 >>,
                    RelatingStructure |-> o.building_storey] >>]
  IN  quantified(add_layer_property_set(
        file \o
        << representation,
           [type |-> "IfcProductDefinitionShape", Representations |-> << Len(file) + 1 >>],
           [type |-> "IfcWallStandardCase",
            Name |-> element_name(layer.name, feature.fid),
            ObjectPlacement |-> feature_placement,
            Representation |-> Len(file) + 2] >>,
        layer, feature, Len(file) + 3))

\* Ogr2Ifc.add_feature(layer, space, feature) of the package: the placement
\* of the feature is created before body_representation is called
package_add_feature(o, file, layer, feature, use_exceptions) ==
  LET composed(placed, representation) ==
        IF representation.err # "" THEN [err |-> representation.err, file |-> placed]
        ELSE package_add_feature_element(o, placed, representation.val, layer, feature,
                                         Len(file) + 1)
  IN  composed(Append(file, create_ifclocalplacement(null, Z, X, o.storey_placement)),
               body_representation(o, feature, use_exceptions))

\* the document of the package's constructor when it opens the GIS file
package_ifc_file(n) ==
  Template \o
  << create_ifclocalplacement(null, Z, X, NoInstance),
     [type |-> "IfcSite", Name |-> "Site", ObjectPlacement |-> n + 1],
     create_ifclocalplacement(null, Z, X, n + 1),
     [type |-> "IfcBuilding", Name |-> "Building", ObjectPlacement |-> n + 3],
     create_ifclocalplacement(null, Z, X, n + 3),
     [type |-> "IfcBuildingStorey", Name |-> "Storey", ObjectPlacement |-> n + 5],
     createIfcRelAggregates("Building Container", n + 4, << n + 6 >>),
     createIfcRelAggregates("Site Container", n + 2, << n + 4 >>),
     createIfcRelAggregates("Project Container", 1, << n + 2 >>) >>

\* the defaults of the package's constructor
PackageMaxElevation == 10000
PackageMinElevation == 0

\* the attributes the package's constructor has assigned by then
package_init(top_elevation, bottom_elevation, n) ==
  [max_elevation |-> PyInt(PackageMaxElevation),
   min_elevation |-> PyInt(PackageMinElevation),
   top_elevation |-> IF top_elevation.t # "NoneType" THEN top_elevation
                     ELSE PyInt(PackageMaxElevation),
   bottom_elevation |-> IF bottom_elevation.t # "NoneType" THEN bottom_elevation
                        ELSE PyInt(PackageMinElevation),
   owner_history |-> 2, project |-> 1, context |-> 3,
   site_placement |-> n + 1, site |-> n + 2,
   building_placement |-> n + 3, building |-> n + 4,
   storey_placement |-> n + 5, building_storey |-> n + 6,
   container_storey |-> n + 7, container_site |-> n + 8, container_project |-> n + 9]

\* Ogr2Ifc(gis_file_path, bim_file_path, top_elevation, bottom_elevation) of
\* the package, at its call of add_vector_layers()
InitPackage ==
  \E top \in TopElevationArgs, bottom \in BottomElevationArgs, ds \in DataSources :
    /\ o2i = package_init(top, bottom, Len(Template))
    /\ ifcfile = package_ifc_file(Len(Template))
    /\ dataSource = ds
    /\ pc = "running"
    /\ raised = ""
    /\ layernames = [all |-> TRUE, names |-> {}]
    /\ layer_i = 0
    /\ feature_i = 0
    /\ space = NoInstance
    /\ mark = Len(package_ifc_file(Len(Template)))
    /\ nflagsets = 0
    /\ fs = NoFilesYet

\* the loop of the package's add_vector_layers reaches a layer:
\* add_layer_objects(layer) up to its loop creates the IfcSpace of the layer
PackageAddLayerObjects ==
  /\ pc = "running" /\ LayerDone /\ layer_i < Len(dataSource)
  /\ ifcfile' = Append(ifcfile, [type |-> "IfcSpace", Name |-> dataSource[layer_i + 1].name])
  /\ space' = Len(ifcfile) + 1
  /\ layer_i' = layer_i + 1
  /\ feature_i' = 0
  /\ UNCHANGED <<o2i, dataSource, pc, raised, layernames, mark, nflagsets, fs>>

\* one turn of the loop of the package's add_layer_objects; an exception
\* leaves the constructor
PackageAddFeature ==
  /\ pc = "running" /\ layer_i > 0 /\ ~LayerDone
  /\ \E use_exceptions \in BOOLEAN :
       LET assign(r) ==
             /\ ifcfile' = r.file
             /\ raised' = r.err
             /\ pc' = IF r.err = "" THEN "running" ELSE "raised"
       IN  assign(package_add_feature(o2i, ifcfile, dataSource[layer_i],
                                      dataSource[layer_i].features[feature_i + 1],
                                      use_exceptions))
  /\ mark' = Len(ifcfile)
  /\ feature_i' = feature_i + 1
  /\ UNCHANGED <<o2i, dataSource, layernames, layer_i, space, nflagsets, fs>>

\* add_vector_layers returns and the constructor writes the document
PackageWrite ==
  /\ pc = "running" /\ LayerDone /\ layer_i = Len(dataSource)
  /\ pc' = "written"
  /\ \E bim_file_path \in {p \in SavePaths : dirname(p) \in fs.dirs \cup {<< >>}} :
       fs' = [fs EXCEPT !.files = write(fs.files, bim_file_path, ifcfile),
                        !.path = bim_file_path]
  /\ UNCHANGED <<o2i, ifcfile, dataSource, raised, layernames, layer_i, feature_i, space,
                 mark, nflagsets>>

NextPackage ==
  \/ PackageAddLayerObjects
  \/ PackageAddFeature
  \/ PackageWrite

SpecPackage == InitPackage /\ [][NextPackage]_vars

\* ------------------------------------------------------------ properties
\* add_feature has been called in the layer the loops are at; the call that
\* was made last is the one for LastFeature
Composed == layer_i > 0 /\ feature_i > 0 /\ Selected(dataSource[layer_i])
LastLayer == dataSource[layer_i]
LastFeature == dataSource[layer_i].features[feature_i]

\* the instances that call left in the document
Created == SubSeq(ifcfile, mark + 1, Len(ifcfile))

\* those of them of one type
CreatedOfType(type) == SelectSeq(Created, LAMBDA r : r.type = type)

\* the representations among them with one identifier
CreatedShapes(identifier) ==
  SelectSeq(CreatedOfType("IfcShapeRepresentation"),
            LAMBDA r : r.RepresentationIdentifier = identifier)

\* the number a numeric attribute or elevation argument stands for
NumberOf(v) == IF v.t = "str" THEN NumericText[v.s] ELSE v.n

\* a value float() accepts
Numeric(v) == v.t \in {"int", "float", "bool"} \/ (v.t = "str" /\ v.s \in DOMAIN NumericText)

\* the elevation an argument of the constructor asks for, for a feature that
\* has a numeric value for the attribute a str argument names
AskedElevation(spec, feature) ==
  IF spec.t = "str" THEN NumberOf(DictGet(feature.items, spec.s)) ELSE spec.n
AskedTop == AskedElevation(o2i.top_elevation, LastFeature)
AskedBottom == AskedElevation(o2i.bottom_elevation, LastFeature)

\* a list of points as the transformer in use maps it, cut to `dimensions`
Emitted(points, dimensions) ==
  [i \in 1..Len(points) |->
    SubSeq(coord_transformer(o2i.coord_transformer, points[i]), 1, dimensions)]

\* the polygons of a polygon or multipolygon geometry, in member order
PolygonParts(geom) == IF geom.name = "MULTIPOLYGON" THEN geom.geoms ELSE << geom >>

IsPolygonal(feature) == feature.geom.name \in {"POLYGON", "MULTIPOLYGON"}

\* the Body builder returned for a polygon or multipolygon feature
BodyBuilt == Composed /\ raised = "" /\ o2i.Body /\ IsPolygonal(LastFeature)

\* the solids of the Body representation of the last feature
BodySolids == CreatedShapes("Body")[1].Items

\* C1: for every polygon part with one outer ring and H inner rings the Body
\* builder makes one solid whose profile has the outer ring (ring index 0) as
\* its outer boundary and the H inner rings, in order, as its voids, and
\* whose extrusion distance is top - bottom of the resolved bounds.
C1_OneOuterAndHVoids ==
  BodyBuilt =>
    /\ Len(CreatedShapes("Body")) = 1
    /\ \A i \in 1..Len(PolygonParts(LastFeature.geom)) :
         i <= Len(BodySolids) /\
         LET part == PolygonParts(LastFeature.geom)[i]
             solid == BodySolids[i]
         IN  /\ solid.type = "IfcExtrudedAreaSolid"
             /\ solid.SweptArea.OuterCurve.Points = Emitted(part.rings[1], 2)
             /\ Len(solid.SweptArea.InnerCurves) = Len(part.rings) - 1
             /\ \A j \in 1..(Len(part.rings) - 1) :
                  solid.SweptArea.InnerCurves[j].Points = Emitted(part.rings[j + 1], 2)
             /\ (solid.SweptArea.type = "IfcArbitraryProfileDefWithVoids")
                  = (Len(part.rings) > 1)
             /\ solid.Depth = AskedTop - AskedBottom

\* a polygon part with the most inner rings has been extruded, with bounds
\* taken from the attributes of the feature
C1_Witness ==
  /\ BodyBuilt
  /\ o2i.bottom_elevation.t = "str" /\ o2i.top_elevation.t = "str"
  /\ \E i \in 1..Len(PolygonParts(LastFeature.geom)) :
       /\ Len(PolygonParts(LastFeature.geom)[i].rings) = MaxHoles + 1
       /\ Len(BodySolids[i].SweptArea.InnerCurves) = MaxHoles

\* C2: a multipolygon of K members yields one Body representation of
\* exactly K solids, solid i extruded from member i; a polygon yields one.
C2_OneSolidPerMember ==
  BodyBuilt =>
    /\ Len(CreatedShapes("Body")) = 1
    /\ Len(BodySolids) = IF LastFeature.geom.name = "MULTIPOLYGON"
                         THEN Len(LastFeature.geom.geoms) ELSE 1
    /\ \A i \in 1..Len(BodySolids) :
         BodySolids[i].SweptArea.OuterCurve.Points
           = Emitted(PolygonParts(LastFeature.geom)[i].rings[1], 2)
    /\ \A i, k \in 1..Len(BodySolids) :
         i # k => BodySolids[i].SweptArea # BodySolids[k].SweptArea

\* a multipolygon of MaxParts members has been extruded
C2_Witness ==
  /\ BodyBuilt
  /\ LastFeature.geom.name = "MULTIPOLYGON"
  /\ Len(LastFeature.geom.geoms) = MaxParts
  /\ Len(BodySolids) = MaxParts

\* the Surface builder returned for a line string feature
SurfaceBuilt ==
  Composed /\ raised = "" /\ o2i.Surface /\ LastFeature.geom.name = "LINESTRING"

SurfaceFaces == CreatedShapes("Surface")[1].Items

\* C3: a line string of n vertices yields one Surface representation of
\* exactly n - 1 faces, face i the closed quadrilateral (p_i, bottom),
\* (p_i+1, bottom), (p_i+1, top), (p_i, top) on the resolved bounds.
C3_OneFacePerSegment ==
  SurfaceBuilt =>
    /\ Len(CreatedShapes("Surface")) = 1
    /\ Len(SurfaceFaces) = Len(LastFeature.geom.points) - 1
    /\ \A i \in 1..Len(SurfaceFaces) :
         LET p0 == LastFeature.geom.points[i]
             p1 == LastFeature.geom.points[i + 1]
             loop == SurfaceFaces[i].Bounds[1].Bound.Polygon
         IN  /\ Len(SurfaceFaces[i].Bounds) = 1
             /\ loop = Emitted(<< <<p0[1], p0[2], AskedBottom>>, <<p1[1], p1[2], AskedBottom>>,
                                  <<p1[1], p1[2], AskedTop>>, <<p0[1], p0[2], AskedTop>>,
                                  <<p0[1], p0[2], AskedBottom>> >>, 3)

\* a line string of MaxVertices vertices has been given its faces
C3_Witness ==
  /\ SurfaceBuilt
  /\ Len(LastFeature.geom.points) = MaxVertices
  /\ Len(SurfaceFaces) = MaxVertices - 1

\* the ids of the instances of one type the last add_feature created
CreatedIds(type) ==
  SelectSeq([k \in 1..Len(Created) |-> mark + k], LAMBDA id : ifcfile[id].type = type)

\* the transformer in use was made by transformer(...)
TransformerGiven == o2i.coord_transformer.kind = "coord_transformer"

\* no flag of a builder that only raises is set
ImplementedOnly == ~o2i.CoG /\ ~o2i.Box /\ ~o2i.FootPrint

\* the attribute of the last feature an elevation argument names
NamedAttribute(spec) == DictGet(LastFeature.items, spec.s)

\* the elevation the bottom (top) argument stands for according to C4: the
\* attribute of the feature when the argument names one that is not null,
\* the `fallback` attribute of the Ogr2Ifc (self.min_elevation,
\* self.max_elevation) when it is null or missing, else the number given
Resolvable(spec) ==
  spec.t = "str" /\ NamedAttribute(spec).t # "NoneType" => Numeric(NamedAttribute(spec))
FallsBack(spec) == spec.t = "str" /\ NamedAttribute(spec).t = "NoneType"
ClaimedElevation(spec, fallback) ==
  IF FallsBack(spec) THEN NumberOf(o2i[fallback])
  ELSE IF spec.t = "str" THEN NumberOf(NamedAttribute(spec))
  ELSE spec.n

\* the bounds the Body builder used, read back from its first solid
UsedBottom == BodySolids[1].Position.Location[3] + o2i.coord_transformer.orthogonal_height
UsedTop == UsedBottom + BodySolids[1].Depth

\* C4 (as claimed): for a feature the Body builder applies to, a bottom (top)
\* argument naming an attribute the feature has resolves to that attribute
\* whatever the dataset minimum (maximum) is; when the attribute is missing or
\* null the resolver does not fail and returns the dataset minimum (maximum);
\* a numeric argument is used as it is.
C4_Claim ==
  (/\ Composed /\ o2i.Body /\ IsPolygonal(LastFeature)
   /\ TransformerGiven /\ ImplementedOnly
   /\ Resolvable(o2i.bottom_elevation) /\ Resolvable(o2i.top_elevation))
  => /\ raised = ""
     /\ FallsBack(o2i.bottom_elevation) => "min_elevation" \in DOMAIN o2i
     /\ FallsBack(o2i.top_elevation) => "max_elevation" \in DOMAIN o2i
     /\ UsedBottom = ClaimedElevation(o2i.bottom_elevation, "min_elevation")
     /\ UsedTop = ClaimedElevation(o2i.top_elevation, "max_elevation")

\* the kind of property C5 gives a value of each Python type
ClaimedKind(v) ==
  CASE v.t = "bool" -> "IfcBoolean"
    [] v.t = "int" -> "IfcInteger"
    [] v.t = "float" -> "IfcReal"
    [] OTHER -> "IfcText"

\* C5: add_property_set emits one property per attribute of the feature, in
\* attribute order: a boolean property for a bool, an integer property for an
\* int, a real property for a float, else a text property of the value as a
\* string; a bool is never given an integer property.
C5_OnePropertyPerAttribute ==
  (Composed /\ raised = "") =>
    /\ Len(CreatedOfType("IfcPropertySet")) = 1
    /\ LET properties == CreatedOfType("IfcPropertySet")[1].HasProperties
           attributes == LastFeature.items
       IN  /\ Len(properties) = Len(attributes)
           /\ \A i \in 1..Len(attributes) :
                /\ properties[i].Name = attributes[i][1]
                /\ properties[i].NominalValue.entity = ClaimedKind(attributes[i][2])
                /\ properties[i].NominalValue.wrappedValue =
                     IF ClaimedKind(attributes[i][2]) # "IfcText" THEN attributes[i][2]
                     ELSE IF attributes[i][2].t = "str" THEN attributes[i][2]
                     ELSE PyStr("None")
                /\ attributes[i][2].t = "bool"
                     => properties[i].NominalValue.entity # "IfcInteger"

\* a feature with a bool, an int, a float, a str and a null attribute each
\* has been given its property set
C5_Witness ==
  /\ Composed /\ raised = ""
  /\ \E i \in 1..Len(LastFeature.items) :
       /\ LastFeature.items[i][2].t = "bool"
       /\ CreatedOfType("IfcPropertySet")[1].HasProperties[i].NominalValue.entity
            = "IfcBoolean"

\* the constructor was given no coord_transformer, or transformer() with all
\* parameters zero
DefaultOrZeroTransformer ==
  /\ o2i.coord_transformer.eastings = 0 /\ o2i.coord_transformer.northings = 0
  /\ o2i.coord_transformer.orthogonal_height = 0 /\ o2i.coord_transformer.rotation = 0

\* points cut to `dimensions` coordinates, not transformed
Unchanged(points, dimensions) == [i \in 1..Len(points) |-> SubSeq(points[i], 1, dimensions)]

\* C6 (as claimed): with no coord_transformer given, as with transformer() of
\* all-zero parameters, every coordinate is emitted as it is in the source,
\* and composing a feature succeeds.
C6_Claim ==
  (/\ Composed /\ DefaultOrZeroTransformer /\ ImplementedOnly
   /\ LastFeature.geom.name \in {"POLYGON", "MULTIPOLYGON", "LINESTRING", "POINT"}
   /\ o2i.bottom_elevation.t # "str" /\ o2i.top_elevation.t # "str")
  => /\ raised = ""
     /\ (o2i.Body /\ IsPolygonal(LastFeature)) =>
          \A i \in 1..Len(BodySolids) :
            BodySolids[i].SweptArea.OuterCurve.Points
              = Unchanged(PolygonParts(LastFeature.geom)[i].rings[1], 2)
     /\ (o2i.Surface /\ LastFeature.geom.name = "LINESTRING") =>
          SurfaceFaces[1].Bounds[1].Bound.Polygon[1]
            = <<LastFeature.geom.points[1][1], LastFeature.geom.points[1][2],
                o2i.bottom_elevation.n>>
     /\ (o2i.Axis /\ LastFeature.geom.name = "POINT") =>
          CreatedShapes("Axis")[1].Items[1].Points
            = << <<LastFeature.geom.points[1][1], LastFeature.geom.points[1][2],
                   o2i.bottom_elevation.n>>,
                 <<LastFeature.geom.points[1][1], LastFeature.geom.points[1][2],
                   o2i.top_elevation.n>> >>

\* the representation flags of an Ogr2Ifc
FlagsOf(o) == [flag \in RepresentationFlags |-> o[flag]]

\* the Ogr2Ifc is as its constructor left it
FreshlyConstructed == pc = "constructed" /\ nflagsets = 0

\* C7 (as claimed): a freshly constructed Ogr2Ifc has Surface and Body on and
\* every other representation flag off.
C7_Claim ==
  FreshlyConstructed =>
    FlagsOf(o2i) = [flag \in RepresentationFlags |-> flag \in {"Surface", "Body"}]

\* C7 (amended): a freshly constructed Ogr2Ifc has Axis, Surface and Body on
\* and CoG, Box and FootPrint off.
C7_DefaultFlags ==
  FreshlyConstructed =>
    FlagsOf(o2i) = [flag \in RepresentationFlags |-> flag \in {"Axis", "Surface", "Body"}]

\* an Ogr2Ifc has been constructed and nothing was done to it yet
C7_Witness == FreshlyConstructed /\ o2i.Axis /\ dataSource # << >>

IsPointKind(feature) == feature.geom.name \in {"POINT", "MULTIPOINT"}
IsLineKind(feature) == feature.geom.name \in {"LINESTRING", "MULTILINESTRING"}

Applies(builder) ==
  /\ o2i[builder]
  /\ CASE builder = "Axis" -> IsPointKind(LastFeature)
       [] builder = "Surface" -> IsLineKind(LastFeature)
       [] builder = "Body" -> IsPolygonal(LastFeature)
       [] OTHER -> TRUE

\* C9: a Body builder asked for a geometry that is no polygon or multipolygon,
\* or a Surface builder asked for one that is no line string or multi line
\* string, returns no representation and raises nothing; the builders after
\* it run; the element is created, with the representations the others made
\* (none when no builder applies).
C9_InapplicableSkipped ==
  Composed =>
    /\ (\A builder \in RepresentationFlags : ~Applies(builder)) => raised = ""
    /\ raised = "" =>
         /\ Len(CreatedOfType("IfcWallStandardCase")) = 1
         /\ Len(CreatedOfType("IfcProductDefinitionShape")) = 1
         /\ CreatedOfType("IfcWallStandardCase")[1].Representation
              = CreatedIds("IfcProductDefinitionShape")[1]
         /\ CreatedOfType("IfcProductDefinitionShape")[1].Representations
              = CreatedIds("IfcShapeRepresentation")
         /\ \A builder \in {"Axis", "Surface", "Body"} :
              Len(CreatedShapes(builder)) = IF Applies(builder) THEN 1 ELSE 0

\* for a polygon the Surface builder was skipped, the Body builder after it
\* ran, and the element was created
C9_Witness ==
  /\ Composed /\ raised = "" /\ LastFeature.geom.name = "POLYGON"
  /\ o2i.Surface /\ o2i.Body
  /\ CreatedShapes("Surface") = << >>
  /\ Len(CreatedShapes("Body")) = 1
  /\ Len(CreatedOfType("IfcWallStandardCase")) = 1

\* C10 (as claimed): when a feature of a geometry the Body builder does not
\* support is routed to it, the conversion fails, and the document holds no
\* instance created for that feature: no element, placement, representation,
\* property set or relation.
C10_Claim ==
  (Composed /\ ~IsPolygonal(LastFeature)) =>
    /\ raised = "Exception" /\ pc = "raised"
    /\ Created = << >>

\* C10 (amended): in the packaged module, add_feature for a feature that is
\* no polygon or multipolygon raises Exception and the constructor never
\* writes the document; no element, representation, property set or relation
\* of the feature is in the document, but the placement created for the
\* feature before the Body builder ran stays in it.
C10_UnsupportedGeometryRaises ==
  (Composed /\ ~IsPolygonal(LastFeature)) =>
    /\ raised = "Exception" /\ pc = "raised"
    /\ Created = << create_ifclocalplacement(null, Z, X, o2i.storey_placement) >>

\* the packaged module was given a line string and raised, leaving the
\* placement of the feature in the document
C10_Witness ==
  /\ Composed /\ LastFeature.geom.name = "LINESTRING"
  /\ raised = "Exception"
  /\ Len(ifcfile) = mark + 1

\* the ids of the instances of one type in the document
IdsOfType(type) == {id \in 1..Len(ifcfile) : ifcfile[id].type = type}

\* the names of the layers of the data source
LayerNamesOf(ds) == {ds[i].name : i \in 1..Len(ds)}

\* the fids of the features of the data source
FidsOf(ds) ==
  UNION {{ds[i].features[j].fid : j \in 1..Len(ds[i].features)} : i \in 1..Len(ds)}

\* the name of the layer the element `id` was made for, read from its Name
LayerOfElement(id) ==
  CHOOSE name \in LayerNamesOf(dataSource) :
    \E fid \in FidsOf(dataSource) : ifcfile[id].Name = element_name(name, fid)

\* the aggregation relations the instance `id` is a child of
AggregationsOf(id) ==
  {r \in IdsOfType("IfcRelAggregates") :
     \E k \in 1..Len(ifcfile[r].RelatedObjects) : ifcfile[r].RelatedObjects[k] = id}

\* the containment relations the element `id` is a member of
ContainmentsOf(id) ==
  {r \in IdsOfType("IfcRelContainedInSpatialStructure") :
     \E k \in 1..Len(ifcfile[r].RelatedElements) : ifcfile[r].RelatedElements[k] = id}

\* the element is contained in the one storey named after its layer
ContainedInStoreyOfLayer(id) ==
  /\ Cardinality(ContainmentsOf(id)) = 1
  /\ \A r \in ContainmentsOf(id) :
       /\ ifcfile[ifcfile[r].RelatingStructure].type = "IfcBuildingStorey"
       /\ ifcfile[ifcfile[r].RelatingStructure].Name = LayerOfElement(id)

\* the element is aggregated under the space named after its layer
AggregatedUnderSpaceOfLayer(id) ==
  /\ Cardinality(AggregationsOf(id)) = 1
  /\ \A r \in AggregationsOf(id) :
       /\ ifcfile[ifcfile[r].RelatingObject].type = "IfcSpace"
       /\ ifcfile[ifcfile[r].RelatingObject].Name = LayerOfElement(id)

\* C11 (as claimed): every element of the document is the child of an
\* aggregation relation whose parent is the space of the element's layer,
\* and a member of a containment relation whose container is the storey of
\* the element's layer.
C11_Claim ==
  \A id \in IdsOfType("IfcWallStandardCase") :
    AggregatedUnderSpaceOfLayer(id) /\ ContainedInStoreyOfLayer(id)

\* the names of the layers add_layer_objects has been called for
ProcessedLayers == {dataSource[i].name : i \in {j \in 1..layer_i : Selected(dataSource[j])}}

\* the instances of one type that carry the name
Named(type, name) == {id \in IdsOfType(type) : ifcfile[id].Name = name}

\* the instance `id` is the child of exactly one aggregation relation, and
\* the parent of that relation is `parent`
AggregatedUnder(id, parent) ==
  /\ Cardinality(AggregationsOf(id)) = 1
  /\ \A r \in AggregationsOf(id) : ifcfile[r].RelatingObject = parent

\* project, site and building exist once, site under project, building under
\* site, and every processed layer has one storey of its name under the building
HierarchyButSpaces ==
  /\ Cardinality(IdsOfType("IfcProject")) = 1
  /\ Cardinality(IdsOfType("IfcSite")) = 1
  /\ Cardinality(IdsOfType("IfcBuilding")) = 1
  /\ AggregatedUnder(o2i.site, o2i.project)
  /\ AggregatedUnder(o2i.building, o2i.site)
  /\ Cardinality(IdsOfType("IfcBuildingStorey")) = Cardinality(ProcessedLayers)
  /\ \A name \in ProcessedLayers :
       /\ Cardinality(Named("IfcBuildingStorey", name)) = 1
       /\ \A id \in Named("IfcBuildingStorey", name) : AggregatedUnder(id, o2i.building)

\* C12 (as claimed): project, site and building exist exactly once; every
\* processed layer has exactly one storey of its name aggregated under the
\* building and exactly one space aggregated under the site; every spatial
\* node but the project is the child of exactly one aggregation relation.
C12_Claim ==
  /\ HierarchyButSpaces
  /\ Cardinality(IdsOfType("IfcSpace")) = Cardinality(ProcessedLayers)
  /\ \A name \in ProcessedLayers :
       /\ Cardinality(Named("IfcSpace", name)) = 1
       /\ \A id \in Named("IfcSpace", name) : AggregatedUnder(id, o2i.site)

\* the layer name is in the subset add_vector_layers was given
InSubset(name) == layernames.all \/ name \in layernames.names

\* the layers and features add_vector_layers was asked to convert
AskedFeatures ==
  UNION {{<<dataSource[i].name, dataSource[i].features[j].fid>> :
            j \in 1..Len(dataSource[i].features)} :
         i \in {k \in 1..Len(dataSource) : InSubset(dataSource[k].name)}}

\* the property sets related to the element `id`
PropertySetsOf(id) ==
  {ifcfile[r].RelatingPropertyDefinition : r \in
     {q \in IdsOfType("IfcRelDefinesByProperties") :
        /\ ifcfile[q].RelatedObjects = << id >>
        /\ ifcfile[ifcfile[q].RelatingPropertyDefinition].type = "IfcPropertySet"}}

\* C13: when add_vector_layers(layernames) has returned, the document holds
\* exactly one element per feature of each layer of the subset (every layer
\* when layernames is None; a str names one layer), each with exactly one
\* property set named after its layer, and no storey, space or element of a
\* layer outside the subset.
C13_OneElementPerSelectedFeature ==
  pc = "returned" =>
    /\ raised = ""
    /\ Cardinality(IdsOfType("IfcWallStandardCase")) = Cardinality(AskedFeatures)
    /\ \A asked \in AskedFeatures :
         Cardinality(Named("IfcWallStandardCase", element_name(asked[1], asked[2]))) = 1
    /\ \A id \in IdsOfType("IfcWallStandardCase") :
         /\ Cardinality(PropertySetsOf(id)) = 1
         /\ \A p \in PropertySetsOf(id) :
              ifcfile[p].Name = "ePset_GIS2BIM_" \o LayerOfElement(id)
    /\ \A name \in LayerNamesOf(dataSource) :
         ~InSubset(name) =>
           /\ Named("IfcBuildingStorey", name) = {}
           /\ Named("IfcSpace", name) = {}
           /\ \A id \in IdsOfType("IfcWallStandardCase") : LayerOfElement(id) # name

\* add_vector_layers has returned after converting the features of one
\* layer and passing over another layer that has features
C13_Witness ==
  /\ pc = "returned" /\ ~layernames.all
  /\ IdsOfType("IfcWallStandardCase") # {}
  /\ \E i \in 1..Len(dataSource) :
       ~InSubset(dataSource[i].name) /\ dataSource[i].features # << >>

\* the quantities of the element quantities the last add_feature created
CreatedQuantities ==
  [k \in 1..Len(CreatedOfType("IfcElementQuantity")) |->
     CreatedOfType("IfcElementQuantity")[k].Quantities]

\* the last add_feature attached exactly one quantity set holding exactly
\* one measure of that name
OneMeasure(name) ==
  /\ Len(CreatedQuantities) = 1
  /\ Len(CreatedQuantities[1]) = 1
  /\ CreatedQuantities[1][1].Name = name

\* for a polygon or multipolygon: one Area measure, the area of the geometry
AreaOfPolygons ==
  (Composed /\ raised = "" /\ IsPolygonal(LastFeature)) =>
    /\ OneMeasure("Area")
    /\ CreatedQuantities[1][1].AreaValue = Area(LastFeature.geom)

\* for a geometry that is neither polygonal nor a line: no quantity set
NoQuantityOfOthers ==
  (Composed /\ raised = "" /\ ~IsPolygonal(LastFeature) /\ ~IsLineKind(LastFeature)) =>
    CreatedQuantities = << >>

\* C14 (as claimed): feature_quantities yields exactly one Area measure for a
\* polygon or multipolygon, exactly one Length measure for a line string or
\* multi line string, and for every other geometry no quantity, no error and
\* no quantity set.
C14_Claim ==
  /\ AreaOfPolygons
  /\ (Composed /\ raised = "" /\ IsLineKind(LastFeature)) => OneMeasure("Length")
  /\ NoQuantityOfOthers

\* the sequence a is the beginning of the sequence b
IsPrefix(a, b) == Len(a) <= Len(b) /\ SubSeq(b, 1, Len(a)) = a

\* a step of the conversion: the document only grows, the loops advance by
\* one feature of the layer they are at or to the next layer when every
\* feature of the layer is done, an exception leaves add_vector_layers, and
\* nothing happens after it
AbortOnFirstError ==
  /\ pc # "raised"
  /\ IsPrefix(ifcfile, ifcfile')
  /\ \/ layer_i' = layer_i /\ feature_i' = feature_i
     \/ layer_i' = layer_i /\ feature_i' = feature_i + 1 /\ mark' = Len(ifcfile)
     \/ layer_i' = layer_i + 1 /\ LayerDone
  /\ raised = ""
  /\ raised' # "" <=> pc' = "raised"

\* C15: features are composed one at a time, in layer order then feature
\* order; when composing a feature raises, the exception leaves
\* add_vector_layers, no later feature or layer is composed, and what was
\* appended to the document before stays in it.
C15_AbortOnFirstError == [][AbortOnFirstError]_vars

\* the second feature of a layer raised after the first was composed, with
\* a layer still to come
C15_Witness ==
  /\ pc = "raised" /\ feature_i = 2 /\ layer_i < Len(dataSource)
  /\ IdsOfType("IfcWallStandardCase") # {}
  /\ Len(ifcfile) > mark

\* the named attributes of the last feature are there and numeric: the
\* bounds resolve without the fallback
BoundsGiven ==
  /\ Resolvable(o2i.bottom_elevation) /\ ~FallsBack(o2i.bottom_elevation)
  /\ Resolvable(o2i.top_elevation) /\ ~FallsBack(o2i.top_elevation)

\* the points of a point or multipoint geometry
PointsOf(geom) == IF geom.name = "MULTIPOINT" THEN geom.geoms ELSE geom.points

\* the last add_feature created exactly one Axis representation: one
\* polyline from the point at the bottom to the point at the top
OneAxisAt(point) ==
  /\ Len(CreatedShapes("Axis")) = 1
  /\ Len(CreatedShapes("Axis")[1].Items) = 1
  /\ CreatedShapes("Axis")[1].Items[1].Points =
       Emitted(<< AtElevation(point, AskedBottom), AtElevation(point, AskedTop) >>, 3)

\* the Axis builder is run for a point feature whose bounds resolve
AxisAsked ==
  /\ Composed /\ o2i.Axis /\ ImplementedOnly /\ TransformerGiven /\ BoundsGiven
  /\ IsPointKind(LastFeature)

\* a point yields its axis
AxisOfPoint ==
  (AxisAsked /\ LastFeature.geom.name = "POINT") =>
    raised = "" /\ OneAxisAt(PointsOf(LastFeature.geom)[1])

\* a multipoint of more than one point makes the builder fail
AxisOfMultiPointFails ==
  (AxisAsked /\ Len(PointsOf(LastFeature.geom)) > 1) =>
    raised # "" /\ CreatedShapes("Axis") = << >>

\* C16 (as claimed): with Axis enabled, a point, or a multipoint of exactly
\* one point, at (x, y) yields exactly one Axis representation of one 3D
\* polyline from (x, y, bottom) to (x, y, top); a multipoint of more than one
\* point makes the builder fail and emit nothing.
C16_Claim ==
  /\ AxisOfPoint
  /\ (AxisAsked /\ LastFeature.geom.name = "MULTIPOINT"
        /\ Len(PointsOf(LastFeature.geom)) = 1) =>
       raised = "" /\ OneAxisAt(PointsOf(LastFeature.geom)[1])
  /\ AxisOfMultiPointFails

\* the values of a sequence
Range(seq) == {seq[i] : i \in 1..Len(seq)}

\* the exception the last add_feature raised carries the text
Carries(text) ==
  /\ exception_args(raised, LastFeature) # {}
  /\ \A args \in exception_args(raised, LastFeature) : text \in Range(args)

\* C17 (as claimed): a failure raised while a feature is composed reaches the
\* caller of add_vector_layers carrying the id of the failing feature and
\* the name of its layer.
C17_Claim ==
  (Composed /\ raised # "") =>
    /\ pc = "raised"
    /\ Carries(ToString(LastFeature.fid))
    /\ Carries(LastLayer.name)

\* save_ifc has been called and has returned or raised
SaveCalled == pc \in {"saved", "save_raised"}

\* C18 (as claimed): save_ifc(path) writes the document to the path, for
\* every path, the parent directory being created first when it is not
\* there; so for a bare file name.
C18_Claim ==
  SaveCalled =>
    /\ fs.err = "" /\ pc = "saved"
    /\ fs.path \in DOMAIN fs.files
    /\ fs.files[fs.path] = ifcfile
    /\ dirname(fs.path) # << >> => dirname(fs.path) \in fs.dirs

\* a feature was composed whose bounds resolve to a top below the bottom,
\* with builders that are implemented for its geometry
TopBelowBottom ==
  /\ Composed /\ ImplementedOnly /\ TransformerGiven /\ BoundsGiven
  /\ LastFeature.geom.name \in {"POLYGON", "MULTIPOLYGON", "LINESTRING", "POINT"}
  /\ AskedTop < AskedBottom

\* C19: no check is made of the order of top and bottom: for a feature whose
\* top resolves below its bottom, extrusion_bounds and the Body, Surface and
\* Axis builders raise nothing, and every solid of the Body representation
\* has the negative extrusion distance top - bottom.
C19_NoOrderingCheck ==
  TopBelowBottom =>
    /\ raised = ""
    /\ \A builder \in {"Axis", "Surface", "Body"} :
         Len(CreatedShapes(builder)) = IF Applies(builder) THEN 1 ELSE 0
    /\ (o2i.Body /\ IsPolygonal(LastFeature)) =>
         \A i \in 1..Len(BodySolids) :
           /\ BodySolids[i].Depth = AskedTop - AskedBottom
           /\ BodySolids[i].Depth < 0

\* a polygon was extruded from the bottom 7 to the top 3
C19_Witness ==
  /\ TopBelowBottom /\ o2i.Body /\ LastFeature.geom.name = "POLYGON"
  /\ raised = ""
  /\ BodySolids[1].Depth = -4

\* the parent reference of the placement `id`
ParentOf(id) == ifcfile[id].PlacementRelTo

\* the placements of the instances of one type
PlacementsOf(type) == {ifcfile[id].ObjectPlacement : id \in IdsOfType(type)}

\* the instances placed by the placement `id`
PlacedBy(id) ==
  {k \in 1..Len(ifcfile) :
     "ObjectPlacement" \in DOMAIN ifcfile[k] /\ ifcfile[k].ObjectPlacement = id}

\* every placement has no parent or a placement created before it; the site
\* placement has none, the building placement has the site placement, a
\* storey placement the building placement, and the placement of an element
\* is its own and has no parent or a storey placement
PlacementForest ==
  /\ \A id \in IdsOfType("IfcLocalPlacement") :
       \/ ParentOf(id) = NoInstance
       \/ ParentOf(id) \in IdsOfType("IfcLocalPlacement") /\ ParentOf(id) < id
  /\ PlacementsOf("IfcSite") = {o2i.site_placement}
  /\ ParentOf(o2i.site_placement) = NoInstance
  /\ PlacementsOf("IfcBuilding") = {o2i.building_placement}
  /\ ParentOf(o2i.building_placement) = o2i.site_placement
  /\ \A id \in PlacementsOf("IfcBuildingStorey") : ParentOf(id) = o2i.building_placement
  /\ \A id \in PlacementsOf("IfcWallStandardCase") :
       /\ Cardinality(PlacedBy(id)) = 1
       /\ ParentOf(id) \in {NoInstance} \cup PlacementsOf("IfcBuildingStorey")

\* C20: the local placements of the document form a forest: the parent of a
\* placement is absent or a placement created before it (none for the site,
\* the site's for the building, the building's for a storey, none or a
\* storey's for the fresh placement of a feature), and no instance of the
\* document, so no parent of a placement, changes once created.
C20_PlacementForest == [](PlacementForest) /\ [][IsPrefix(ifcfile, ifcfile')]_vars

\* two storeys and the elements of two features have been placed
C20_Witness ==
  /\ Cardinality(PlacementsOf("IfcBuildingStorey")) = 2
  /\ Cardinality(PlacementsOf("IfcWallStandardCase")) >= 2

====
